---- MODULE Spec2Model ----
(***************************************************************************)
(* Model of fastparse::types::PositionalSlice (src/src/lib.rs).            *)
(*                                                                         *)
(* PositionalSlice is a copyable {offset, length} pair of usize.  Its      *)
(* operations are pure; the model applies them to values drawn from the    *)
(* whole usize x usize range of a machine whose word has USIZE_BITS bits,  *)
(* in a build with overflow checks (debug) and in one without (release).   *)
(***************************************************************************)
EXTENDS Integers, Sequences, FiniteSets, TLC

\* Width of usize / isize in the model (64 on the real targets).
USIZE_BITS == 3
\* Longest chain of shift calls applied to one slice.
MaxCalls == 2
\* Longest source sequence handed to a projection.
MaxLen == 4

VARIABLES
    overflow_checks, \* TRUE: built with overflow checks and debug assertions
    origin,          \* the slice as constructed by new()
    cur,             \* the slice the caller currently holds
    calls,           \* the shift calls made so far, oldest first
    pc,              \* "ready" | "absent" | "panicked" | "compared" | "projected"
    other,           \* right-hand operand of a comparison
    cmp,             \* results of the comparison operators
    source,          \* the sequence (or text) a projection is applied to
    skip,            \* the projection is applied to the sub-view source[skip..]
    proj             \* outcome of the projection

vars == <<overflow_checks, origin, cur, calls, pc, other, cmp, source, skip, proj>>

----------------------------------------------------------------------------
(* Machine integers *)

usize_MAX == 2^USIZE_BITS - 1
isize_MIN == -(2^(USIZE_BITS - 1))
isize_MAX == 2^(USIZE_BITS - 1) - 1

usize == 0..usize_MAX
isize == isize_MIN..isize_MAX

\* Result of one arithmetic step: a value, or a trap (overflow panic).
Trap == [trap |-> TRUE, v |-> 0]
Val(n) == [trap |-> FALSE, v |-> n]

\* `a + b` on usize: panics on overflow when checks are on, else wraps.
usize_add(a, b) ==
    IF a + b > usize_MAX
    THEN IF overflow_checks THEN Trap ELSE Val((a + b) % (2^USIZE_BITS))
    ELSE Val(a + b)

\* `a - b` on usize: panics on underflow when checks are on, else wraps.
usize_sub(a, b) ==
    IF a - b < 0
    THEN IF overflow_checks THEN Trap ELSE Val((a - b) % (2^USIZE_BITS))
    ELSE Val(a - b)

\* Two's-complement wrap of an integer into the isize range.
wrap_isize(n) == ((n + 2^(USIZE_BITS - 1)) % (2^USIZE_BITS)) - 2^(USIZE_BITS - 1)

\* `-d` on isize: -isize::MIN is not representable; panics or wraps to isize::MIN.
isize_neg(d) ==
    IF -d > isize_MAX
    THEN IF overflow_checks THEN Trap ELSE Val(wrap_isize(-d))
    ELSE Val(-d)

\* `d as usize`: two's-complement reinterpretation, never traps.
as_usize(d) == d % (2^USIZE_BITS)

----------------------------------------------------------------------------
(* PositionalSlice *)

PositionalSlice == [offset : usize, length : usize]

\* new() as it would be had it taken its arguments in the other order.
new_swapped(off, len) == [offset |-> len, length |-> off]

new(off, len) == [offset |-> off, length |-> len]

\* Outcomes of a call.
Panic == [kind |-> "panic"]
None == [kind |-> "none"]
Some(s) == [kind |-> "some", val |-> s]
Value(s) == [kind |-> "value", val |-> s]

\* offset_unchecked as it would be had it clamped the offset instead of
\* leaving overflow to the build's arithmetic.
offset_unchecked_saturating(self, d) ==
    IF self.offset + d < 0 THEN Value([length |-> self.length, offset |-> 0])
    ELSE IF self.offset + d > usize_MAX
    THEN Value([length |-> self.length, offset |-> usize_MAX])
    ELSE Value([length |-> self.length, offset |-> self.offset + d])

offset_unchecked(self, d) ==
    IF d < 0
    THEN LET n == isize_neg(d) IN
         IF n.trap THEN Panic
         ELSE LET new_off == usize_sub(self.offset, as_usize(n.v)) IN
              IF new_off.trap THEN Panic
              ELSE Value([length |-> self.length, offset |-> new_off.v])
    ELSE LET new_off == usize_add(self.offset, as_usize(d)) IN
         IF new_off.trap THEN Panic
         ELSE Value([length |-> self.length, offset |-> new_off.v])

\* offset_checked as it would be had case 1 been tested with >= instead of >.
offset_checked_strict(self, d) ==
    IF 0 = d THEN Some(self)
    ELSE IF d < 0
    THEN LET a == as_usize(-d) IN
         IF a >= self.offset THEN None
         ELSE Some(new(self.offset - a, self.length))
    ELSE IF d > usize_MAX - self.offset THEN None
    ELSE IF d + self.length > usize_MAX - self.offset THEN None
    ELSE Some(new(self.offset + d, self.length))

offset_checked(self, d) ==
    IF 0 = d THEN Some(self)
    ELSE IF d < 0
    THEN LET n == isize_neg(d) IN
         IF n.trap THEN Panic
         ELSE LET a == as_usize(n.v) IN
              IF a > self.offset THEN None  \* case 1
              ELSE LET off == usize_sub(self.offset, a) IN
                   IF off.trap THEN Panic
                   ELSE Some(new(off.v, self.length))
    ELSE IF overflow_checks /\ ~(d > 0) THEN Panic  \* debug_assert!(d > 0)
    ELSE LET a == as_usize(d)
             room == usize_sub(usize_MAX, self.offset)
             end == usize_add(a, self.length)
         IN  IF room.trap THEN Panic
             ELSE IF a > room.v THEN None  \* case 2
             ELSE IF end.trap THEN Panic
             ELSE IF end.v > room.v THEN None  \* case 3
             ELSE LET off == usize_add(self.offset, a) IN
                  IF off.trap THEN Panic
                  ELSE Some(new(off.v, self.length))

----------------------------------------------------------------------------
(* Chains of offset_checked calls *)

Call(name, d, from, res) == [op |-> name, d |-> d, from |-> from, res |-> res]

NoCmp == [done |-> FALSE]
NoProj == [kind |-> "unset"]

Idle ==
    /\ other = new(0, 0)
    /\ cmp = NoCmp
    /\ source = <<>>
    /\ skip = 0
    /\ proj = NoProj

InitShift ==
    /\ overflow_checks \in BOOLEAN
    /\ origin \in PositionalSlice
    /\ cur = origin
    /\ calls = <<>>
    /\ pc = "ready"
    /\ Idle

\* The caller shifts the slice it holds with offset_checked(d) and keeps the
\* result when it is present; it stops at the first absent result, and a panic
\* ends the program.
OffsetChecked(d) ==
    /\ pc = "ready"
    /\ Len(calls) < MaxCalls
    /\ LET res == offset_checked(cur, d) IN
       /\ calls' = Append(calls, Call("offset_checked", d, cur, res))
       /\ cur' = IF res.kind = "some" THEN res.val ELSE cur
       /\ pc' = CASE res.kind = "some" -> "ready"
                  [] res.kind = "none" -> "absent"
                  [] OTHER -> "panicked"
    /\ UNCHANGED <<overflow_checks, origin, other, cmp, source, skip, proj>>

NextChecked == \E d \in isize : OffsetChecked(d)

SpecChecked == InitShift /\ [][NextChecked]_vars

\* The caller shifts the slice it holds with offset_unchecked(d); a panic ends
\* the program.
OffsetUnchecked(d) ==
    /\ pc = "ready"
    /\ Len(calls) < MaxCalls
    /\ LET res == offset_unchecked(cur, d) IN
       /\ calls' = Append(calls, Call("offset_unchecked", d, cur, res))
       /\ cur' = IF res.kind = "value" THEN res.val ELSE cur
       /\ pc' = IF res.kind = "value" THEN "ready" ELSE "panicked"
    /\ UNCHANGED <<overflow_checks, origin, other, cmp, source, skip, proj>>

NextUnchecked == \E d \in isize : OffsetUnchecked(d)

SpecUnchecked == InitShift /\ [][NextUnchecked]_vars

----------------------------------------------------------------------------
(* Properties of offset_checked *)

CheckedCalls == {i \in DOMAIN calls : calls[i].op = "offset_checked"}
UncheckedCalls == {i \in DOMAIN calls : calls[i].op = "offset_unchecked"}

\* Every call so far was offset_checked and returned a present result.
AllPresent ==
    \A i \in DOMAIN calls :
        calls[i].op = "offset_checked" /\ calls[i].res.kind = "some"

RECURSIVE SumDeltas(_)
SumDeltas(cs) == IF cs = <<>> THEN 0 ELSE cs[1].d + SumDeltas(Tail(cs))

\* offset_unchecked applied from slice s with the deltas of cs, in order.
RECURSIVE UncheckedChain(_, _)
UncheckedChain(s, cs) ==
    IF cs = <<>> THEN Value(s)
    ELSE LET r == offset_unchecked(s, cs[1].d) IN
         IF r.kind = "value" THEN UncheckedChain(r.val, Tail(cs)) ELSE r

\* The result the specification prescribes for offset_checked, computed on
\* unbounded integers.
ReferenceChecked(s, d) ==
    IF d = 0 THEN Some(s)
    ELSE IF d < 0 /\ -d > s.offset THEN None
    ELSE IF d > 0 /\ s.offset + d > usize_MAX THEN None
    ELSE IF d > 0 /\ s.offset + d + s.length > usize_MAX THEN None
    ELSE Some([offset |-> s.offset + d, length |-> s.length])

\* C1: offset_checked never traps: every call returns a present or an absent
\* result, whatever the slice and the delta.
C1_CheckedNeverTraps ==
    \A i \in CheckedCalls : calls[i].res.kind \in {"some", "none"}

\* C2: offset_checked(d) equals the reference result for every slice and
\* every delta.
C2_CheckedMatchesReference ==
    \A i \in CheckedCalls : calls[i].res = ReferenceChecked(calls[i].from, calls[i].d)

\* Two consecutive offset_checked calls, the first present with delta d and
\* the second with delta -d.
RoundTripAt(i) ==
    /\ i \in CheckedCalls
    /\ i + 1 \in CheckedCalls
    /\ calls[i].res.kind = "some"
    /\ calls[i + 1].d = -calls[i].d

\* C3 (as claimed): whenever x.offset_checked(d) is present, offset_checked(-d)
\* of the result is present and equals x.
C3_RoundTrip ==
    \A i \in DOMAIN calls :
        RoundTripAt(i) => calls[i + 1].res = Some(calls[i].from)

\* C3 (amended): for a delta d other than isize::MIN and a slice x that, when
\* d is negative, has a representable end (offset + length <= usize::MAX):
\* whenever x.offset_checked(d) is present, offset_checked(-d) of the result
\* is present and equals x.
C3_RoundTripRepresentableEnd ==
    \A i \in DOMAIN calls :
        (/\ RoundTripAt(i)
         /\ calls[i].d # isize_MIN
         /\ (calls[i].d < 0 =>
                calls[i].from.offset + calls[i].from.length <= usize_MAX))
        => calls[i + 1].res = Some(calls[i].from)

C3_Witness ==
    /\ Len(calls) = 2
    /\ RoundTripAt(1)
    /\ calls[1].d < 0
    /\ calls[1].from.length > 0
    /\ calls[1].from.offset + calls[1].from.length = usize_MAX
    /\ calls[2].res = Some(origin)

\* C9: after a sequence of offset_checked calls that all return present, the
\* slice has the original length, its offset is the original offset plus the
\* sum of the deltas, and it is what offset_unchecked yields for the same deltas.
C9_ChainFrame ==
    AllPresent =>
        /\ cur.length = origin.length
        /\ cur.offset = origin.offset + SumDeltas(calls)
        /\ UncheckedChain(origin, calls) = Value(cur)

C9_Witness ==
    /\ AllPresent
    /\ Len(calls) = 2
    /\ calls[1].d > 0
    /\ calls[2].d < 0
    /\ calls[1].d + calls[2].d # 0
    /\ cur.offset = origin.offset + calls[1].d + calls[2].d

\* C10: starting from a slice whose end is representable, every slice a chain
\* of present offset_checked results leads to has a representable end.
C10_EndStaysRepresentable ==
    (AllPresent /\ origin.offset + origin.length <= usize_MAX)
        => cur.offset + cur.length <= usize_MAX

----------------------------------------------------------------------------
(* Properties of offset_unchecked *)

InRange(n) == 0 <= n /\ n <= usize_MAX

\* C4: when offset + d is representable, offset_unchecked(d) returns
\* {offset + d, length} without trapping.
C4_UncheckedInRange ==
    \A i \in UncheckedCalls :
        InRange(calls[i].from.offset + calls[i].d)
        => calls[i].res = Value([offset |-> calls[i].from.offset + calls[i].d,
                                 length |-> calls[i].from.length])

\* C5: when offset + d is not representable, offset_unchecked(d) traps in a
\* build with overflow checks and returns {(offset + d) mod 2^w, length} in a
\* build without.
C5_UncheckedOutOfRange ==
    \A i \in UncheckedCalls :
        ~InRange(calls[i].from.offset + calls[i].d)
        => IF overflow_checks
           THEN calls[i].res = Panic
           ELSE calls[i].res =
                    Value([offset |-> (calls[i].from.offset + calls[i].d) % (2^USIZE_BITS),
                           length |-> calls[i].from.length])

C5_Witness ==
    /\ ~overflow_checks
    /\ Len(calls) = 1
    /\ calls[1].op = "offset_unchecked"
    /\ calls[1].from = new(0, 1)
    /\ calls[1].d = -1
    /\ calls[1].res = Value(new(usize_MAX, 1))

----------------------------------------------------------------------------
(* Comparison *)

eq(self, rhs) ==
    IF self.offset # rhs.offset THEN FALSE
    ELSE IF self.length # rhs.length THEN FALSE
    ELSE TRUE

\* partial_cmp as it would be had it compared length before offset.
partial_cmp_length_first(self, rhs) ==
    IF self.length < rhs.length THEN "Less"
    ELSE IF rhs.length < self.length THEN "Greater"
    ELSE IF self.offset < rhs.offset THEN "Less"
    ELSE IF rhs.offset < self.offset THEN "Greater"
    ELSE "Equal"

partial_cmp(self, rhs) ==
    IF self.offset < rhs.offset THEN "Less"
    ELSE IF rhs.offset < self.offset THEN "Greater"
    ELSE IF self.length < rhs.length THEN "Less"
    ELSE IF rhs.length < self.length THEN "Greater"
    ELSE "Equal"

\* `a < b` and `a > b` are the provided methods of PartialOrd.
lt(self, rhs) == partial_cmp(self, rhs) = "Less"
gt(self, rhs) == partial_cmp(self, rhs) = "Greater"

InitCmp ==
    /\ overflow_checks \in BOOLEAN
    /\ origin \in PositionalSlice
    /\ cur = origin
    /\ calls = <<>>
    /\ pc = "ready"
    /\ Idle

\* The caller compares the slice it holds with the slice b.
Compare(b) ==
    /\ pc = "ready"
    /\ other' = b
    /\ cmp' = [done |-> TRUE,
               eq |-> eq(cur, b),
               lt |-> lt(cur, b),
               gt |-> gt(cur, b),
               partial_cmp |-> partial_cmp(cur, b)]
    /\ pc' = "compared"
    /\ UNCHANGED <<overflow_checks, origin, cur, calls, source, skip, proj>>

NextCmp == \E b \in PositionalSlice : Compare(b)

SpecCmp == InitCmp /\ [][NextCmp]_vars

Count(b) == IF b THEN 1 ELSE 0

\* C6: comparison is lexicographic on (offset, length) and consistent with
\* equality: == is field-wise equality, < is offset first then length, exactly
\* one of <, ==, > holds, and partial_cmp is Equal exactly when == holds.
C6_LexicographicOrder ==
    cmp.done =>
        /\ cmp.eq <=> (cur.offset = other.offset /\ cur.length = other.length)
        /\ cmp.lt <=> \/ cur.offset < other.offset
                      \/ (cur.offset = other.offset /\ cur.length < other.length)
        /\ Count(cmp.lt) + Count(cmp.eq) + Count(cmp.gt) = 1
        /\ (cmp.partial_cmp = "Equal") <=> cmp.eq

C6_Witness ==
    /\ cmp.done
    /\ cur.offset < other.offset
    /\ cur.length > other.length
    /\ cmp.lt
    /\ ~cmp.eq

----------------------------------------------------------------------------
(* Projection *)

\* Storage units of the sequences: the two bytes of U+00E9 in UTF-8.
Lead == 195
Continuation == 169
Units == {Lead, Continuation}

Sources == UNION {[1..n -> Units] : n \in 0..MaxLen}

\* The text is well-formed UTF-8 over Units: a run of Lead Continuation pairs.
RECURSIVE is_utf8(_)
is_utf8(t) ==
    IF t = <<>> THEN TRUE
    ELSE /\ Len(t) >= 2
         /\ t[1] = Lead
         /\ t[2] = Continuation
         /\ is_utf8(SubSeq(t, 3, Len(t)))

\* str::is_char_boundary: index i starts a character or is the end of t.
is_char_boundary(t, i) ==
    \/ i = 0
    \/ i = Len(t)
    \/ (i < Len(t) /\ t[i + 1] # Continuation)

\* The sub-view s[k..] of a sequence.
view_from(s, k) == SubSeq(s, k + 1, Len(s))

View(name, es) == [kind |-> "view", op |-> name, elems |-> es]
ProjPanic(name) == [kind |-> "panic", op |-> name]

\* Slice indexing as it would be had an inverted range been taken as empty.
slice_index_unordered(slice, start, end) ==
    IF end > Len(slice) THEN Panic
    ELSE Value(SubSeq(slice, start + 1, end))

\* `&slice[start..end]` on a slice: panics unless start <= end <= len.
slice_index(slice, start, end) ==
    IF start > end THEN Panic
    ELSE IF end > Len(slice) THEN Panic
    ELSE Value(SubSeq(slice, start + 1, end))

\* `&slice[start..end]` on a str: also panics off a character boundary.
str_index(slice, start, end) ==
    IF start > end THEN Panic
    ELSE IF end > Len(slice) THEN Panic
    ELSE IF ~is_char_boundary(slice, start) \/ ~is_char_boundary(slice, end) THEN Panic
    ELSE Value(SubSeq(slice, start + 1, end))

\* subslice_of as it would be had the range ended at length instead of
\* offset + length.
subslice_of_end_at_length(self, slice) ==
    LET r == slice_index(slice, self.offset, self.length) IN
    IF r.kind = "panic" THEN ProjPanic("subslice_of")
    ELSE View("subslice_of", r.val)

subslice_of(self, slice) ==
    LET end == usize_add(self.offset, self.length) IN
    IF end.trap THEN ProjPanic("subslice_of")
    ELSE LET r == slice_index(slice, self.offset, end.v) IN
         IF r.kind = "panic" THEN ProjPanic("subslice_of")
         ELSE View("subslice_of", r.val)

substring_of(self, slice) ==
    LET end == usize_add(self.offset, self.length) IN
    IF end.trap THEN ProjPanic("substring_of")
    ELSE LET r == str_index(slice, self.offset, end.v) IN
         IF r.kind = "panic" THEN ProjPanic("substring_of")
         ELSE View("substring_of", r.val)

InitProj ==
    /\ overflow_checks \in BOOLEAN
    /\ origin \in PositionalSlice
    /\ cur = origin
    /\ calls = <<>>
    /\ pc = "ready"
    /\ other = new(0, 0)
    /\ cmp = NoCmp
    /\ source \in Sources
    /\ skip \in 0..Len(source)
    /\ proj = NoProj

\* The caller applies the slice it holds to the view source[skip..].
SubsliceOf ==
    /\ pc = "ready"
    /\ proj' = subslice_of(cur, view_from(source, skip))
    /\ pc' = "projected"
    /\ UNCHANGED <<overflow_checks, origin, cur, calls, other, cmp, source, skip>>

\* The caller applies the slice it holds to the text source[skip..], which it
\* can form only from a well-formed text at a character boundary.
SubstringOf ==
    /\ pc = "ready"
    /\ is_utf8(source)
    /\ is_char_boundary(source, skip)
    /\ proj' = substring_of(cur, view_from(source, skip))
    /\ pc' = "projected"
    /\ UNCHANGED <<overflow_checks, origin, cur, calls, other, cmp, source, skip>>

NextProj == SubsliceOf \/ SubstringOf

SpecProj == InitProj /\ [][NextProj]_vars

\* C7: when offset + length <= len(v), subslice_of(v) is exactly the length
\* elements v[offset..offset+length) in order; for the sub-view v = s[k..] these
\* are s[k+offset], ..., s[k+offset+length-1] of the unmodified s.
C7_SubsliceElements ==
    (/\ proj.kind # "unset"
     /\ proj.op = "subslice_of"
     /\ cur.offset + cur.length <= Len(source) - skip)
    => /\ proj.kind = "view"
       /\ Len(proj.elems) = cur.length
       /\ \A i \in 1..cur.length : proj.elems[i] = source[skip + cur.offset + i]

C7_Witness ==
    /\ proj.kind = "view"
    /\ proj.op = "subslice_of"
    /\ skip = 1
    /\ cur = new(1, 2)
    /\ source = <<Lead, Lead, Continuation, Lead>>
    /\ proj.elems = <<Continuation, Lead>>

\* C8: when the sequence or text is shorter than offset + length (as an
\* unbounded sum), subslice_of and substring_of trap, with overflow checks and
\* without.
C8_ProjectionTrapsOutOfBounds ==
    (/\ proj.kind # "unset"
     /\ Len(source) - skip < cur.offset + cur.length)
    => proj.kind = "panic"

C8_Witness ==
    /\ ~overflow_checks
    /\ proj.kind = "panic"
    /\ proj.op = "subslice_of"
    /\ cur.offset + cur.length > usize_MAX
    /\ (cur.offset + cur.length) % (2^USIZE_BITS) <= Len(source) - skip
    /\ Len(source) - skip > 0

====
